---- MODULE Spec2Model ----
(***************************************************************************)
(* Model of src/logs_merger.py: main() = LogsMerger().merge().             *)
(* LogsMerger.__init__ runs parse_args (validation of the three paths,     *)
(* removal of a stale output file); merge() opens the three streams and    *)
(* runs the two-way merge loop with write_logs_until as the drain.         *)
(*                                                                         *)
(* A line of a .jsonl file is a record                                     *)
(*   [kind, ts, nl, src, idx]                                              *)
(* kind = "ok"      : json.loads succeeds and 'timestamp' matches the      *)
(*                    format; ts is the parsed datetime (1..MaxT)          *)
(* kind = "badjson" : json.loads raises JSONDecodeError                    *)
(* kind = "nots"    : json parses, 'timestamp' missing or ill-formatted    *)
(* nl               : the line ends with "\n" (only the last line of a     *)
(*                    file may lack it)                                    *)
(* src, idx         : the rest of the payload; it makes every record of    *)
(*                    the two inputs a distinct text                       *)
(* None and '' (what readline returns at end of file) are the two falsy    *)
(* values NoneLine and EofLine.  A datetime is always truthy; None as a    *)
(* time is NoTime.                                                         *)
(***************************************************************************)
EXTENDS Integers, Sequences, FiniteSets, TLC

VARIABLES
    argv_a, argv_b, argv_o,     \* command line: log_a, log_b, -o/--output
    fs,                         \* files that exist (os.path.isfile)
    fs0,                        \* the files that existed when main() started
    removed,                    \* files os.remove was called on
    log_a_path, log_b_path, output_log_path,   \* self.* of LogsMerger
    A, B,                       \* the lines the files behind fd_a, fd_b hold
    posA, posB,                 \* number of lines read from fd_a, fd_b
    fd_a, fd_b, fd_out,         \* "unopened" | "open" | "closed"
    line_a, line_b,             \* merge() locals
    time_a, time_b,
    fd_in,                      \* write_logs_until: which stream it drains
    next_out_log_line,          \* write_logs_until local
    stop_time,                  \* write_logs_until parameter
    out,                        \* what was written to fd_out, in order
    exc, exc_line,              \* the exception that was raised, its line
    result,                     \* "running" | "rejected" | "completed" | "failed"
    pc                          \* position in the program

vars == << argv_a, argv_b, argv_o, fs, fs0, removed,
           log_a_path, log_b_path, output_log_path,
           A, B, posA, posB, fd_a, fd_b, fd_out,
           line_a, line_b, time_a, time_b,
           fd_in, next_out_log_line, stop_time,
           out, exc, exc_line, result, pc >>

-----------------------------------------------------------------------------
(* Bounds *)

MaxLen == 2         \* longest input file, in lines
MaxT == 3           \* number of distinct timestamps

-----------------------------------------------------------------------------
(* Lines and times *)

NoTime == 0

NoneLine == [kind |-> "None", ts |-> NoTime, nl |-> FALSE, src |-> "", idx |-> 0]

EofLine == [kind |-> "eof", ts |-> NoTime, nl |-> FALSE, src |-> "", idx |-> 0]

\* Python truth value of a line: None and '' are falsy
Truthy(line) == line.kind \notin {"None", "eof"}

\* Python truth value of a time: None is falsy, a datetime never is
TruthyTime(t) == t # NoTime

LineTexts == { [kind |-> k, ts |-> t] :
                 k \in {"ok"}, t \in 1..MaxT }
             \cup { [kind |-> k, ts |-> NoTime] : k \in {"badjson", "nots"} }

MkLine(text, nl, src, idx) ==
    [kind |-> text.kind, ts |-> text.ts, nl |-> nl, src |-> src, idx |-> idx]

\* the files of at most MaxLen lines; only the last line may lack its "\n"
Inputs(src) ==
    UNION { { [i \in 1..n |-> MkLine(f[i], (i < n) \/ lastnl, src, i)] :
                f \in [1..n -> LineTexts], lastnl \in BOOLEAN }
            : n \in 0..MaxLen }

\* fd.readline(): the next line, or '' at end of file
readline(S, pos) == IF pos < Len(S) THEN S[pos + 1] ELSE EofLine

readpos(S, pos) == IF pos < Len(S) THEN pos + 1 ELSE pos

\* get_log_time raises (json.JSONDecodeError, or the ValueError/TypeError
\* of strptime) on a non-empty line that has no usable timestamp
get_log_time_raises(line) == Truthy(line) /\ line.kind # "ok"

get_log_time_exc(line) ==
    IF line.kind = "badjson" THEN "JSONDecodeError" ELSE "ValueError"

\* get_log_time where it returns: None for a falsy line, else the datetime
get_log_time(line) == IF ~Truthy(line) THEN NoTime ELSE line.ts

\* a write that terminates every line it writes with "\n"
write_nl(o, line) ==
    IF line = EofLine THEN o ELSE Append(o, [line EXCEPT !.nl = TRUE])

\* fd_out.write(line): writing '' appends nothing
write(o, line) == IF line = EofLine THEN o ELSE Append(o, line)

-----------------------------------------------------------------------------
(* Paths and files *)

NonePath == [dir |-> "", name |-> "None", ext |-> ""]

EmptyPath == [dir |-> "", name |-> "", ext |-> ""]

MkPath(d, n, e) == [dir |-> d, name |-> n, ext |-> e]

PathA == MkPath("", "a", ".jsonl")

PathB == MkPath("", "b", ".jsonl")

PathADot == MkPath("./", "a", ".jsonl")

PathOutput == MkPath("", "Output", ".jsonl")     \* the default of --output

Paths == { PathA, PathADot, PathB, PathOutput,
           MkPath("", "a", ".txt"), MkPath("", "Output", ".txt"), EmptyPath }

\* the file a path names: "a.jsonl" and "./a.jsonl" are one file
FileOf(p) == [name |-> p.name, ext |-> p.ext]

Files == { FileOf(PathA), FileOf(PathB), FileOf(PathOutput) }

isfile(p, files) == FileOf(p) \in files

endswith_jsonl(p) == p.ext = ".jsonl"

validate_output(p) ==
    ~(p = NonePath \/ p = EmptyPath \/ ~endswith_jsonl(p))

validate_input(p, files) ==
    ~(p = NonePath \/ p = EmptyPath \/ ~endswith_jsonl(p) \/ ~isfile(p, files))

\* the comparison against 2: only three equal names are refused
same_files_2(a, b, o) == Cardinality({a, b, o}) < 2

\* len(set([args.log_a, args.log_b, args.output])) < 3
same_files(a, b, o) == Cardinality({a, b, o}) < 3

-----------------------------------------------------------------------------
(* Initial states: main() is about to run *)

OneLine(src) == << MkLine([kind |-> "ok", ts |-> 1], TRUE, src, 1) >>

InitCommon ==
    /\ fs = fs0
    /\ removed = {}
    /\ log_a_path = NonePath /\ log_b_path = NonePath
    /\ output_log_path = NonePath
    /\ posA = 0 /\ posB = 0
    /\ fd_a = "unopened" /\ fd_b = "unopened" /\ fd_out = "unopened"
    /\ line_a = NoneLine /\ line_b = NoneLine
    /\ time_a = NoTime /\ time_b = NoTime
    /\ fd_in = "none"
    /\ next_out_log_line = NoneLine
    /\ stop_time = NoTime
    /\ out = << >>
    /\ exc = "none" /\ exc_line = NoneLine
    /\ result = "running"
    /\ pc = "parse_args"

\* any two input files, named by the usual command line
InitContents ==
    /\ argv_a = PathA /\ argv_b = PathB /\ argv_o = PathOutput
    /\ fs0 = {FileOf(PathA), FileOf(PathB), FileOf(PathOutput)}
    /\ A \in Inputs("A")
    /\ B \in Inputs("B")

\* any command line over any file system, the files holding one record
InitArgs ==
    /\ argv_a \in Paths /\ argv_b \in Paths /\ argv_o \in Paths
    /\ fs0 \in SUBSET Files
    /\ A = OneLine("A")
    /\ B = OneLine("B")

Init == (InitContents \/ InitArgs) /\ InitCommon

-----------------------------------------------------------------------------
(* Variable groups *)

cli == << argv_a, argv_b, argv_o, fs0, A, B >>

selfpaths == << log_a_path, log_b_path, output_log_path >>

disk == << fs, removed >>

fds == << fd_a, fd_b, fd_out >>

positions == << posA, posB >>

locals == << line_a, line_b, time_a, time_b >>

drainvars == << fd_in, next_out_log_line, stop_time >>

errvars == << exc, exc_line >>

-----------------------------------------------------------------------------
(* LogsMerger.__init__ -> parse_args *)

\* parser.parse_args(): the three type= validators; argparse turns their
\* ValueError into a usage error and exits
ParseArgs ==
    /\ pc = "parse_args"
    /\ IF /\ validate_input(argv_a, fs)
          /\ validate_input(argv_b, fs)
          /\ validate_output(argv_o)
       THEN /\ pc' = "check_same"
            /\ UNCHANGED << exc, result >>
       ELSE /\ exc' = "SystemExit"
            /\ result' = "rejected"
            /\ pc' = "done"
    /\ UNCHANGED << cli, selfpaths, disk, fds, positions, locals, drainvars,
                    out, exc_line >>

\* the three names must differ; then self.* are set
CheckSame ==
    /\ pc = "check_same"
    /\ IF same_files(argv_a, argv_b, argv_o)
       THEN /\ exc' = "ValueError"
            /\ result' = "rejected"
            /\ pc' = "done"
            /\ UNCHANGED selfpaths
       ELSE /\ log_a_path' = argv_a
            /\ log_b_path' = argv_b
            /\ output_log_path' = argv_o
            /\ pc' = "delete"
            /\ UNCHANGED << exc, result >>
    /\ UNCHANGED << cli, disk, fds, positions, locals, drainvars,
                    out, exc_line >>

\* "Delete file if exists"
DeleteOutput ==
    /\ pc = "delete"
    /\ IF isfile(output_log_path, fs)
       THEN /\ fs' = fs \ {FileOf(output_log_path)}
            /\ removed' = removed \cup {FileOf(output_log_path)}
       ELSE UNCHANGED disk
    /\ pc' = "open_a"
    /\ UNCHANGED << cli, selfpaths, fds, positions, locals, drainvars,
                    out, errvars, result >>

-----------------------------------------------------------------------------
(* merge(): the with statement *)

\* what leaving the with block does to a stream
close(fd) == IF fd = "open" THEN "closed" ELSE fd

OpenA ==
    /\ pc = "open_a"
    /\ IF isfile(log_a_path, fs)
       THEN /\ fd_a' = "open"
            /\ pc' = "open_b"
            /\ UNCHANGED << exc, result >>
       ELSE /\ exc' = "FileNotFoundError"
            /\ result' = "failed"
            /\ pc' = "done"
            /\ UNCHANGED fd_a
    /\ UNCHANGED << cli, selfpaths, disk, fd_b, fd_out, positions, locals,
                    drainvars, out, exc_line >>

OpenB ==
    /\ pc = "open_b"
    /\ IF isfile(log_b_path, fs)
       THEN /\ fd_b' = "open"
            /\ pc' = "open_out"
            /\ UNCHANGED << fd_a, exc, result >>
       ELSE /\ exc' = "FileNotFoundError"
            /\ fd_a' = close(fd_a)
            /\ result' = "failed"
            /\ pc' = "done"
            /\ UNCHANGED fd_b
    /\ UNCHANGED << cli, selfpaths, disk, fd_out, positions, locals,
                    drainvars, out, exc_line >>

\* open(self.output_log_path, 'w') creates the file; line_a = line_b = None
OpenOut ==
    /\ pc = "open_out"
    /\ fd_out' = "open"
    /\ fs' = fs \cup {FileOf(output_log_path)}
    /\ line_a' = NoneLine
    /\ line_b' = NoneLine
    /\ pc' = "loop"
    /\ UNCHANGED << cli, selfpaths, removed, fd_a, fd_b, positions,
                    time_a, time_b, drainvars, out, errvars, result >>

\* streams closed by hand after the loop: an exception skips the closing
UnwindLeak ==
    /\ pc = "raise"
    /\ result' = "failed"
    /\ pc' = "done"
    /\ UNCHANGED << cli, selfpaths, disk, fds, positions, locals, drainvars,
                    out, errvars >>

\* an exception leaves the with block: the streams are closed, it propagates
Unwind ==
    /\ pc = "raise"
    /\ fd_a' = close(fd_a)
    /\ fd_b' = close(fd_b)
    /\ fd_out' = close(fd_out)
    /\ result' = "failed"
    /\ pc' = "done"
    /\ UNCHANGED << cli, selfpaths, disk, positions, locals, drainvars,
                    out, errvars >>

\* break: the with block ends normally
WithExit ==
    /\ pc = "exit"
    /\ fd_a' = close(fd_a)
    /\ fd_b' = close(fd_b)
    /\ fd_out' = close(fd_out)
    /\ result' = "completed"
    /\ pc' = "done"
    /\ UNCHANGED << cli, selfpaths, disk, positions, locals, drainvars,
                    out, errvars >>

-----------------------------------------------------------------------------
(* merge(): the loop *)

Raise(line) ==
    /\ exc' = get_log_time_exc(line)
    /\ exc_line' = line
    /\ pc' = "raise"

\* a read on every iteration, whatever is pending
reads_always(line) == TRUE

\* fd.readline() if not line else line
reads(line) == ~Truthy(line)

\* the break left out: the loop has no exit
exhausted_never(la, lb) == FALSE

\* "or" in place of "and": stops as soon as one stream is exhausted
exhausted_either(la, lb) == ~Truthy(la) \/ ~Truthy(lb)

\* if not line_a and not line_b: break
exhausted(la, lb) == ~Truthy(la) /\ ~Truthy(lb)

\* "Read line from each file", then the exhaustion check
LoopTop ==
    /\ pc = "loop"
    /\ line_a' = IF reads(line_a) THEN readline(A, posA) ELSE line_a
    /\ posA' = IF reads(line_a) THEN readpos(A, posA) ELSE posA
    /\ line_b' = IF reads(line_b) THEN readline(B, posB) ELSE line_b
    /\ posB' = IF reads(line_b) THEN readpos(B, posB) ELSE posB
    /\ pc' = IF exhausted(line_a', line_b') THEN "exit" ELSE "get_times"
    /\ UNCHANGED << cli, selfpaths, disk, fds, time_a, time_b, drainvars,
                    out, errvars, result >>

\* time_a, time_b = get_log_time(line_a), get_log_time(line_b)
GetTimes ==
    /\ pc = "get_times"
    /\ IF get_log_time_raises(line_a)
       THEN Raise(line_a) /\ UNCHANGED << time_a, time_b >>
       ELSE IF get_log_time_raises(line_b)
       THEN Raise(line_b) /\ UNCHANGED << time_a, time_b >>
       ELSE /\ time_a' = get_log_time(line_a)
            /\ time_b' = get_log_time(line_b)
            /\ pc' = "branch"
            /\ UNCHANGED errvars
    /\ UNCHANGED << cli, selfpaths, disk, fds, positions, line_a, line_b,
                    drainvars, out, result >>

\* if not time_b or (time_a and time_a < time_b)
take_a(ta, tb) == ~TruthyTime(tb) \/ (TruthyTime(ta) /\ ta < tb)

\* elif not time_a or time_a > time_b
take_b(ta, tb) == ~TruthyTime(ta) \/ ta > tb

\* write line_a, then call write_logs_until(fd_a, fd_out, time_b)
BranchA ==
    /\ pc = "branch"
    /\ take_a(time_a, time_b)
    /\ out' = write(out, line_a)
    /\ fd_in' = "A"
    /\ stop_time' = time_b
    /\ pc' = "drain_read"
    /\ UNCHANGED << cli, selfpaths, disk, fds, positions, locals,
                    next_out_log_line, errvars, result >>

\* write line_b, then call write_logs_until(fd_b, fd_out, time_a)
BranchB ==
    /\ pc = "branch"
    /\ ~take_a(time_a, time_b)
    /\ take_b(time_a, time_b)
    /\ out' = write(out, line_b)
    /\ fd_in' = "B"
    /\ stop_time' = time_a
    /\ pc' = "drain_read"
    /\ UNCHANGED << cli, selfpaths, disk, fds, positions, locals,
                    next_out_log_line, errvars, result >>

\* the two writes of the tie in the other order
TieBFirst ==
    /\ pc = "branch"
    /\ ~take_a(time_a, time_b)
    /\ ~take_b(time_a, time_b)
    /\ out' = write(write(out, line_b), line_a)
    /\ line_a' = NoneLine
    /\ line_b' = NoneLine
    /\ pc' = "loop"
    /\ UNCHANGED << cli, selfpaths, disk, fds, positions, time_a, time_b,
                    drainvars, errvars, result >>

\* "Same time in both files"
Tie ==
    /\ pc = "branch"
    /\ ~take_a(time_a, time_b)
    /\ ~take_b(time_a, time_b)
    /\ out' = write(write(out, line_a), line_b)
    /\ line_a' = NoneLine
    /\ line_b' = NoneLine
    /\ pc' = "loop"
    /\ UNCHANGED << cli, selfpaths, disk, fds, positions, time_a, time_b,
                    drainvars, errvars, result >>

-----------------------------------------------------------------------------
(* write_logs_until(fd_in, fd_out, stop_time) *)

\* next_out_log_line = fd_in.readline()
DrainRead ==
    /\ pc = "drain_read"
    /\ IF fd_in = "A"
       THEN /\ next_out_log_line' = readline(A, posA)
            /\ posA' = readpos(A, posA)
            /\ UNCHANGED posB
       ELSE /\ next_out_log_line' = readline(B, posB)
            /\ posB' = readpos(B, posB)
            /\ UNCHANGED posA
    /\ pc' = "drain_test"
    /\ UNCHANGED << cli, selfpaths, disk, fds, locals, fd_in, stop_time,
                    out, errvars, result >>

\* ">=" in place of ">": stops at a line of the very time stop_time
drain_stops_ge(t, stop) == TruthyTime(stop) /\ t >= stop

\* the comparison reversed
drain_stops_lt(t, stop) == TruthyTime(stop) /\ t < stop

\* stop_time and get_log_time(next_out_log_line) > stop_time
drain_stops(t, stop) == TruthyTime(stop) /\ t > stop

\* return value -> line_a = ... or line_b = ... in merge()
DrainReturn(value) ==
    /\ IF fd_in = "A"
       THEN line_a' = value /\ UNCHANGED line_b
       ELSE line_b' = value /\ UNCHANGED line_a
    /\ pc' = "after_drain"
    /\ UNCHANGED << out, errvars >>

\* the write placed before the test of the time
DrainTestWritesFirst ==
    /\ pc = "drain_test"
    /\ IF ~Truthy(next_out_log_line)
       THEN DrainReturn(NoneLine)
       ELSE IF TruthyTime(stop_time) /\ get_log_time_raises(next_out_log_line)
       THEN /\ out' = write(out, next_out_log_line)
            /\ exc' = get_log_time_exc(next_out_log_line)
            /\ exc_line' = next_out_log_line
            /\ pc' = "raise"
            /\ UNCHANGED << line_a, line_b >>
       ELSE IF drain_stops(get_log_time(next_out_log_line), stop_time)
       THEN DrainReturn(next_out_log_line)
       ELSE /\ out' = write(out, next_out_log_line)
            /\ pc' = "drain_read"
            /\ UNCHANGED << line_a, line_b, errvars >>
    /\ UNCHANGED << cli, selfpaths, disk, fds, positions, time_a, time_b,
                    drainvars, result >>

\* the if / elif of the loop body, then the write
DrainTest ==
    /\ pc = "drain_test"
    /\ IF ~Truthy(next_out_log_line)
       THEN DrainReturn(NoneLine)
       ELSE IF TruthyTime(stop_time) /\ get_log_time_raises(next_out_log_line)
       THEN Raise(next_out_log_line) /\ UNCHANGED << out, line_a, line_b >>
       ELSE IF drain_stops(get_log_time(next_out_log_line), stop_time)
       THEN DrainReturn(next_out_log_line)
       ELSE /\ out' = write(out, next_out_log_line)
            /\ pc' = "drain_read"
            /\ UNCHANGED << line_a, line_b, errvars >>
    /\ UNCHANGED << cli, selfpaths, disk, fds, positions, time_a, time_b,
                    drainvars, result >>

\* "line_b = None" left out after the write
AfterAKeepsB ==
    /\ pc = "after_drain"
    /\ fd_in = "A"
    /\ out' = write(out, line_b)
    /\ pc' = "loop"
    /\ UNCHANGED << cli, selfpaths, disk, fds, positions, locals,
                    drainvars, errvars, result >>

\* after the drain of A: fd_out.write(line_b); line_b = None
AfterA ==
    /\ pc = "after_drain"
    /\ fd_in = "A"
    /\ out' = write(out, line_b)
    /\ line_b' = NoneLine
    /\ pc' = "loop"
    /\ UNCHANGED << cli, selfpaths, disk, fds, positions, line_a,
                    time_a, time_b, drainvars, errvars, result >>

\* "line_a = None" left out after the write
AfterBKeepsA ==
    /\ pc = "after_drain"
    /\ fd_in = "B"
    /\ out' = write(out, line_a)
    /\ pc' = "loop"
    /\ UNCHANGED << cli, selfpaths, disk, fds, positions, locals,
                    drainvars, errvars, result >>

\* after the drain of B: fd_out.write(line_a); line_a = None
AfterB ==
    /\ pc = "after_drain"
    /\ fd_in = "B"
    /\ out' = write(out, line_a)
    /\ line_a' = NoneLine
    /\ pc' = "loop"
    /\ UNCHANGED << cli, selfpaths, disk, fds, positions, line_b,
                    time_a, time_b, drainvars, errvars, result >>

-----------------------------------------------------------------------------

Next ==
    \/ ParseArgs \/ CheckSame \/ DeleteOutput
    \/ OpenA \/ OpenB \/ OpenOut
    \/ LoopTop \/ GetTimes
    \/ BranchA \/ BranchB \/ Tie
    \/ DrainRead \/ DrainTest
    \/ AfterA \/ AfterB
    \/ Unwind \/ WithExit

Spec == Init /\ [][Next]_vars

\* the program is one sequential thread of blocking calls on finite files:
\* while a statement remains to be executed, it is executed
FairSpec == Spec /\ WF_vars(Next)

-----------------------------------------------------------------------------
(* Vocabulary of the properties *)

Range(s) == { s[i] : i \in 1..Len(s) }

Valid(S) == \A i \in 1..Len(S) : S[i].kind = "ok"

\* sorted ascending by timestamp, valid records only
SortedValid(S) ==
    /\ Valid(S)
    /\ \A i \in 1..Len(S), j \in 1..Len(S) : i < j => S[i].ts <= S[j].ts

\* the lines read so far from a stream
ReadFrom(S, pos) == { S[k] : k \in 1..pos }

\* lines read but not yet written
HeldA == ReadFrom(A, posA) \ Range(out)

HeldB == ReadFrom(B, posB) \ Range(out)

\* the variables that can hold a line
Slots == { line_a, line_b, next_out_log_line }

\* the lines of the text that the writes produce: a write without "\n" is
\* continued by the next write
OutputLineCount(o) ==
    Cardinality({ i \in 1..Len(o) : o[i].nl })
      + (IF Len(o) > 0 /\ ~o[Len(o)].nl THEN 1 ELSE 0)

Occurrences(o, line) == Cardinality({ i \in 1..Len(o) : o[i] = line })

\* get_log_time has raised: the exception carries the line it was given
ExtractionFailed == exc \in {"JSONDecodeError", "ValueError"} /\ Truthy(exc_line)

Unopened == fd_a = "unopened" /\ fd_b = "unopened" /\ fd_out = "unopened"

-----------------------------------------------------------------------------
(* C1 *)

\* C1 - Order invariant: when A and B are each sorted ascending by timestamp
\* and hold only valid records, the output written so far is non-decreasing
\* in timestamp in every reachable state.
OrderInvariant ==
    (SortedValid(A) /\ SortedValid(B)) =>
        \A i \in 1..(Len(out) - 1) : out[i].ts <= out[i + 1].ts

\* a finished merge of two sorted two-line inputs that interleaves them
OrderWitness ==
    /\ result = "completed"
    /\ SortedValid(A) /\ SortedValid(B)
    /\ Len(out) = 4
    /\ out[1].src = "A" /\ out[2].src = "B" /\ out[3].src = "A"
    /\ out[1].ts < out[2].ts /\ out[2].ts < out[3].ts

(* C2 *)

\* C2 - Completeness: when merge() finishes without a fatal error, sorted
\* inputs or not, the output holds the records of A plus the records of B as
\* a multiset: its number of lines is len(A) + len(B), every record is there
\* once and none twice.
Completeness ==
    result = "completed" =>
        /\ OutputLineCount(out) = Len(A) + Len(B)
        /\ \A line \in Range(A) \cup Range(B) : Occurrences(out, line) = 1
        /\ Range(out) = Range(A) \cup Range(B)

(* C3 *)

\* C3 - Tie determinism: for sorted valid inputs, a record of A and a record
\* of B with the same timestamp are written A first, never B first.
TieDeterminism ==
    (SortedValid(A) /\ SortedValid(B)) =>
        \A i \in 1..Len(out), j \in 1..Len(out) :
            (out[i].src = "B" /\ out[j].src = "A" /\ out[i].ts = out[j].ts)
                => j < i

(* C4 *)

\* C4 - Fail-fast on bad input: if some line of either stream is not
\* parseable or has no usable timestamp, merge() ends Failed and no such
\* line is ever written.
FailFastOnBadInput ==
    (~Valid(A) \/ ~Valid(B)) =>
        /\ \A i \in 1..Len(out) : out[i].kind = "ok"
        /\ pc = "done" => result = "failed"

(* C5 *)

\* the states after a failed timestamp extraction
AfterFailure ==
    ExtractionFailed =>
        /\ exc_line \notin Range(out)
        /\ exc_line \in ReadFrom(A, posA) \cup ReadFrom(B, posB)
        /\ exc_line.kind # "ok"
        /\ pc \in {"raise", "done"}
        /\ pc = "done" => result = "failed"

\* A = [valid, bad], B = [later valid] leaves exactly one line in the output
FailureExample ==
    ( /\ pc = "done"
      /\ Len(A) = 2 /\ A[1].kind = "ok" /\ A[2].kind # "ok"
      /\ Len(B) = 1 /\ B[1].kind = "ok" /\ A[1].ts < B[1].ts )
        => out = << A[1] >>

\* the failing step and every later step read nothing and write nothing
NothingAfterFailure ==
    ExtractionFailed' => (out' = out /\ posA' = posA /\ posB' = posB)

\* C5 - Failure semantics: when timestamp extraction fails, the error
\* propagates at once: nothing is read or written from then on, the output
\* keeps exactly what was written before, and the offending line is not in
\* it (A = [valid, bad], B = [later valid] leaves one line).
FailureSemantics ==
    [](AfterFailure /\ FailureExample) /\ [][NothingAfterFailure]_vars

\* a failure raised inside the drain of A after one line was written
FailureWitness ==
    /\ pc = "done" /\ result = "failed"
    /\ exc = "JSONDecodeError"
    /\ fd_in = "A" /\ exc_line = next_out_log_line
    /\ Len(A) = 2 /\ exc_line = A[2]
    /\ Len(B) = 1 /\ posB = 1
    /\ out = << A[1] >>

(* C6 *)

\* C6 - Content preservation: in every reachable state, Failed included,
\* every line of the output is a line already read from A or B, unaltered,
\* and no input line is in the output twice.
ContentPreservation ==
    /\ Range(out) \subseteq ReadFrom(A, posA) \cup ReadFrom(B, posB)
    /\ \A i \in 1..Len(out), j \in 1..Len(out) : out[i] = out[j] => i = j

\* a failed merge that had written lines of both streams, one of them
\* lacking its newline
ContentWitness ==
    /\ result = "failed"
    /\ \E i \in 1..Len(out), j \in 1..Len(out) :
           out[i].src = "A" /\ out[j].src = "B" /\ ~out[i].nl

(* C7 *)

\* C7 - Empty streams: with one input empty and the other valid, a finished
\* merge() has completed and its output is the other input, in order; with
\* both empty it completes at the first exhaustion check, the output empty.
EmptyStreams ==
    /\ (pc = "done" /\ A = << >> /\ Valid(B)) =>
           (result = "completed" /\ out = B)
    /\ (pc = "done" /\ B = << >> /\ Valid(A)) =>
           (result = "completed" /\ out = A)
    /\ (A = << >> /\ B = << >>) =>
           /\ pc \notin {"get_times", "branch", "drain_read", "drain_test",
                         "after_drain", "raise"}
           /\ out = << >>
           /\ posA = 0 /\ posB = 0

\* A empty, B two valid lines, merged
EmptyWitness ==
    /\ pc = "done" /\ result = "completed"
    /\ A = << >> /\ Len(B) = 2 /\ out = B

(* C8 *)

\* C8 - Look-ahead bound: in every reachable state at most one line of A and
\* at most one line of B is read but not written, and such a line is held in
\* line_a, line_b or the drain's next_out_log_line, nowhere else.
LookAheadBound ==
    /\ Cardinality(HeldA) <= 1
    /\ Cardinality(HeldB) <= 1
    /\ HeldA \cup HeldB \subseteq Slots

\* inside the drain of A: a line of A just read, the line of B pending
LookAheadWitness ==
    /\ pc = "drain_test" /\ fd_in = "A"
    /\ HeldA = {next_out_log_line}
    /\ HeldB = {line_b}
    /\ line_a \in Range(out)

(* C9 *)

\* what parse_args has to refuse, on the file system as main() found it
Refused ==
    \/ ~validate_input(argv_a, fs0)
    \/ ~validate_input(argv_b, fs0)
    \/ ~validate_output(argv_o)
    \/ Cardinality({argv_a, argv_b, argv_o}) < 3

NoSideEffect ==
    Refused =>
        /\ Unopened
        /\ removed = {} /\ fs = fs0
        /\ out = << >>
        /\ pc = "done" => result = "rejected"

\* the removal is of the output file, with every stream still unopened
RemovalInOrder ==
    removed' # removed =>
        /\ ~Refused
        /\ Unopened /\ out = << >>
        /\ removed' = {FileOf(argv_o)}
        /\ FileOf(argv_o) \in fs0

\* a stream is opened only once the removal step is behind
OpenAfterRemoval ==
    (Unopened /\ ~Unopened') => (pc = "open_a" /\ ~Refused)

\* C9 - Validation precedes every side effect: with an invalid path or
\* three paths not pairwise distinct the program is rejected before any
\* stream is opened, any file removed or anything written; a pre-existing
\* output file is removed only after validation and before the streams open.
ValidationFirst ==
    []NoSideEffect /\ [][RemovalInOrder /\ OpenAfterRemoval]_vars

\* rejected for equal names while the output file exists, still on disk
ValidationWitness ==
    /\ pc = "done" /\ result = "rejected"
    /\ argv_o = argv_a
    /\ validate_input(argv_a, fs0) /\ validate_input(argv_b, fs0)
    /\ isfile(argv_o, fs)

(* C10 *)

\* C10 - Scoped streams: when merge() has ended, normally or by a fatal
\* error of the loop or of the drain, no stream it opened is still open.
ScopedStreams ==
    pc = "done" =>
        (fd_a # "open" /\ fd_b # "open" /\ fd_out # "open")

\* merge() ended by an error raised in the drain, the three streams closed
ScopedWitness ==
    /\ pc = "done" /\ result = "failed"
    /\ ExtractionFailed /\ exc_line = next_out_log_line
    /\ fd_a = "closed" /\ fd_b = "closed" /\ fd_out = "closed"

(* C11 *)

\* the stream being drained, how far it was read, the line pending on the
\* other side
Drained == IF fd_in = "A" THEN A ELSE B

DrainedPos == IF fd_in = "A" THEN posA ELSE posB

DrainResult == IF fd_in = "A" THEN line_a ELSE line_b

OtherPending == IF fd_in = "A" THEN line_b ELSE line_a

\* a drain that runs against a pending line of the other stream
DrainingAgainst ==
    /\ pc \in {"drain_read", "drain_test", "after_drain"}
    /\ TruthyTime(stop_time)

DrainRuleSorted ==
    (DrainingAgainst /\ SortedValid(A) /\ SortedValid(B)) =>
        /\ OtherPending.ts = stop_time
        /\ OtherPending \notin Range(out)
        /\ \A x \in Range(out) : x.src = fd_in => x.ts <= stop_time
        /\ pc = "after_drain" =>
             /\ { x \in Range(out) : x.src = fd_in }
                    = { x \in Range(Drained) : x.ts <= stop_time }
             /\ IF \E x \in Range(Drained) : x.ts > stop_time
                THEN /\ DrainResult = Drained[DrainedPos]
                     /\ DrainResult.ts > stop_time
                     /\ DrainResult \notin Range(out)
                     /\ \A k \in 1..(DrainedPos - 1) :
                            Drained[k].ts <= stop_time
                ELSE DrainResult = NoneLine /\ DrainedPos = Len(Drained)

\* for any inputs, one line of the drain at a time: written when its time is
\* at most stop_time, else handed back unwritten as the new pending line
DrainRuleStep ==
    (pc = "drain_test" /\ TruthyTime(stop_time)
        /\ Truthy(next_out_log_line) /\ next_out_log_line.kind = "ok") =>
        IF next_out_log_line.ts <= stop_time
        THEN out' = Append(out, next_out_log_line) /\ pc' = "drain_read"
        ELSE out' = out /\ pc' = "after_drain"
               /\ DrainResult' = next_out_log_line

\* after the drain the other side's pending line is written and its slot
\* cleared, the line handed back stays pending
DrainRuleAfter ==
    pc = "after_drain" =>
        /\ out' = write(out, OtherPending)
        /\ OtherPending' = NoneLine
        /\ DrainResult' = DrainResult

HeadTie ==
    /\ pc = "branch"
    /\ Truthy(line_a) /\ Truthy(line_b)
    /\ time_a = time_b

\* C12 - Head-to-head tie step: in an iteration where both pending lines are
\* present and their timestamps are equal, merge() writes A's pending line
\* immediately followed by B's, reads no other line in that iteration and
\* leaves both pending slots empty.
TieStep ==
    [][HeadTie =>
         /\ out' = out \o << line_a, line_b >>
         /\ posA' = posA /\ posB' = posB
         /\ line_a' = NoneLine /\ line_b' = NoneLine
         /\ pc' = "loop"]_vars

\* back at the top of the loop after a tie of the two heads
TieWitness ==
    /\ pc = "loop"
    /\ TruthyTime(time_a) /\ time_a = time_b
    /\ posA >= 1 /\ posB >= 1
    /\ Len(out) >= 2
    /\ out[Len(out) - 1] = A[posA] /\ out[Len(out)] = B[posB]
    /\ A[posA].ts = time_a /\ B[posB].ts = time_b
    /\ line_a = NoneLine /\ line_b = NoneLine

(* C13 *)

\* Completed is reached, and the loop is left, only with both streams
\* exhausted and nothing pending
CompletedOnlyExhausted ==
    (result = "completed" \/ pc = "exit") =>
        /\ posA = Len(A) /\ posB = Len(B)
        /\ ~Truthy(line_a) /\ ~Truthy(line_b)
        /\ HeldA = {} /\ HeldB = {}

EndedWithResult ==
    /\ pc = "done" <=> result # "running"
    /\ result \in {"running", "rejected", "completed", "failed"}

\* an iteration that goes on past the exhaustion check writes a line; no
\* step un-reads or un-writes one
IterationProgress ==
    /\ pc = "branch" => Len(out') > Len(out)
    /\ posA' >= posA /\ posB' >= posB
    /\ Len(out') >= Len(out)

\* no step leaves Completed or Failed
NoWayBack == result \in {"completed", "failed"} => vars' = vars

\* C13 - Termination and single-shot state machine: for any two finite
\* inputs merge() eventually reaches Completed or Failed; every iteration
\* that does not finish writes at least one line and never re-reads one;
\* Completed is reached only with both streams exhausted and both pending
\* slots empty; no transition leaves Completed or Failed.
SingleShot ==
    /\ <>(result # "running")
    /\ [](CompletedOnlyExhausted /\ EndedWithResult)
    /\ [][IterationProgress /\ NoWayBack]_vars

\* a merge of two two-line inputs that took several iterations completed
SingleShotWitness ==
    /\ pc = "done" /\ result = "completed"
    /\ Len(A) = 2 /\ Len(B) = 2 /\ Len(out) = 4
    /\ out[2].src # out[1].src /\ out[3].src # out[2].src

(* C14 *)

\* C14 - One record per output line: after a successful merge() every
\* record is on a line of its own, also a record that was read without a
\* trailing newline and is not the last one written; no two records are
\* ever joined on one output line.
OneRecordPerLine ==
    /\ \A i \in 1..(Len(out) - 1) : out[i].nl
    /\ result = "completed" => OutputLineCount(out) = Len(out)

(* C15 *)

IsFromA(x) == x.src = "A"

IsFromB(x) == x.src = "B"

\* the records of one stream in the output, in output order
OutFromA == SelectSeq(out, IsFromA)

OutFromB == SelectSeq(out, IsFromB)

\* what a stream has in the output is a prefix of the stream, within what
\* was read of it
StablePrefix ==
    /\ Len(OutFromA) <= posA
    /\ OutFromA = SubSeq(A, 1, Len(OutFromA))
    /\ Len(OutFromB) <= posB
    /\ OutFromB = SubSeq(B, 1, Len(OutFromB))

\* a step reads a stream forward, at most its next line
ReadsForward ==
    /\ posA' \in {posA, posA + 1}
    /\ posB' \in {posB, posB + 1}

\* C15 - Per-stream stability: for any two inputs, sorted or not, in every
\* reachable state the records of A in the output are a prefix of A in A's
\* order, likewise for B, and each stream is only read forward, one line at
\* a time.
PerStreamStability == []StablePrefix /\ [][ReadsForward]_vars

\* a finished merge of an input that is out of order with another input
StabilityWitness ==
    /\ pc = "done" /\ result = "completed"
    /\ Len(A) = 2 /\ Valid(A) /\ A[1].ts > A[2].ts
    /\ Len(B) = 2
    /\ OutFromA = A /\ OutFromB = B

(* C16 *)

\* the top of an iteration other than the first, before the reads
LoopTopAgain == pc = "loop" /\ out # << >>

LastWritten == out[Len(out)]

\* the pending lines at the top of the loop
PendingLines == { x \in {line_a, line_b} : Truthy(x) }

\* the lines not yet read from a stream
Unread(S, pos) == { S[k] : k \in (pos + 1)..Len(S) }

\* the last line of the output that came from the given stream, if any
LastFrom(o) == IF o = << >> THEN {} ELSE { o[Len(o)] }

\* C16 - Loop invariant: at the top of every iteration after the first,
\* before the reads, at most one pending slot holds a line; for sorted valid
\* inputs that line is strictly later than the last line written, and every
\* unread line is no earlier than the last line written from its own stream.
LoopInvariant ==
    LoopTopAgain =>
        /\ ~(Truthy(line_a) /\ Truthy(line_b))
        /\ (SortedValid(A) /\ SortedValid(B)) =>
             /\ \A x \in PendingLines : x.ts > LastWritten.ts
             /\ \A x \in Unread(A, posA), w \in LastFrom(OutFromA) :
                    x.ts >= w.ts
             /\ \A x \in Unread(B, posB), w \in LastFrom(OutFromB) :
                    x.ts >= w.ts

\* back at the top with a line of A pending, a line of B unread and lines
\* of both streams written
LoopWitness ==
    /\ LoopTopAgain
    /\ SortedValid(A) /\ SortedValid(B)
    /\ Truthy(line_a) /\ ~Truthy(line_b)
    /\ Unread(B, posB) # {}
    /\ OutFromA # << >> /\ OutFromB # << >>

====
